---- MODULE Spec2Model ----
(***************************************************************************)
(* A model of 494Project1.py: a differentiable rocket-landing simulator    *)
(* (Dynamics, Controller, Simulation) driven by an LBFGS optimisation loop *)
(* (Optimize).                                                             *)
(*                                                                         *)
(* Numbers.  A float32 tensor element is modelled as a fixed-point number: *)
(* an integer count of 1/Scale units, finite in -MaxFinite..MaxFinite,     *)
(* with the three IEEE specials PInf, NInf and NaN.  Arithmetic rounds to  *)
(* the nearest unit, overflows to an infinity, and follows the IEEE rules  *)
(* for the specials (inf - inf = NaN, 0 * inf = NaN, NaN is absorbing).    *)
(* sin, cos and tanh are rational approximations of the library functions  *)
(* with the same range, sign, zeros and saturation.                        *)
(*                                                                         *)
(* Tensors.  A tensor is a record [nd, rows]: nd is its number of          *)
(* dimensions (0, 1 or 2) and rows its elements, always held as a sequence *)
(* of rows (a 1-D tensor is one row, a scalar one row of one element).     *)
(***************************************************************************)
EXTENDS Integers, Sequences, FiniteSets, TLC

\* ------------------------------------------------------------ numbers

\* Units per 1.0 (the precision of the fixed-point model).
Scale == 1000

\* Largest finite magnitude, in units (the overflow threshold of the model).
MaxFinite == 1000000

PInf == MaxFinite + 1
NInf == 0 - (MaxFinite + 1)
NaN == MaxFinite + 2

IsNaN(x) == x = NaN
IsInf(x) == x = PInf \/ x = NInf
IsFin(x) == x >= 0 - MaxFinite /\ x <= MaxFinite

Abs(x) == IF x < 0 THEN 0 - x ELSE x
Sgn(x) == IF x < 0 THEN 0 - 1 ELSE IF x > 0 THEN 1 ELSE 0

\* p / q rounded to the nearest integer (q > 0).
RoundDiv(p, q) == (2 * p + q) \div (2 * q)

\* The literal n/d as a number.
Lit(n, d) == RoundDiv(n * Scale, d)

\* A finite result, or the infinity it overflows to.
Fit(v) == IF v > MaxFinite THEN PInf ELSE IF v < 0 - MaxFinite THEN NInf ELSE v

FNeg(x) == IF IsNaN(x) THEN NaN ELSE 0 - x

FAdd(x, y) ==
    IF IsNaN(x) \/ IsNaN(y) THEN NaN
    ELSE IF IsInf(x) /\ IsInf(y) THEN (IF x = y THEN x ELSE NaN)
    ELSE IF IsInf(x) THEN x
    ELSE IF IsInf(y) THEN y
    ELSE Fit(x + y)

FMul(x, y) ==
    IF IsNaN(x) \/ IsNaN(y) THEN NaN
    ELSE IF x = 0 \/ y = 0 THEN (IF IsInf(x) \/ IsInf(y) THEN NaN ELSE 0)
    ELSE IF IsInf(x) \/ IsInf(y) THEN (IF Sgn(x) = Sgn(y) THEN PInf ELSE NInf)
    ELSE IF Abs(x) > ((MaxFinite + 1) * Scale) \div Abs(y)
         THEN (IF Sgn(x) = Sgn(y) THEN PInf ELSE NInf)
    ELSE Fit(RoundDiv(x * y, Scale))

FSq(x) == FMul(x, x)

\* pi, and the sine of Bhaskara's approximation on [0, pi].
Pi == Lit(355, 113)

SinHalf(r) ==
    LET q == r * (Pi - r)
    IN  RoundDiv(16 * q, RoundDiv(5 * Pi * Pi - 4 * q, Scale))

\* torch.sin: NaN for NaN and the infinities.
FSin(x) ==
    IF ~IsFin(x) THEN NaN
    ELSE LET r == x % (2 * Pi)
         IN  IF r <= Pi THEN SinHalf(r) ELSE 0 - SinHalf(r - Pi)

\* torch.cos, as sin(x + pi/2).
FCos(x) ==
    IF ~IsFin(x) THEN NaN
    ELSE LET r == (x + Pi \div 2) % (2 * Pi)
         IN  IF r <= Pi THEN SinHalf(r) ELSE 0 - SinHalf(r - Pi)

\* nn.Tanh: x(27 + x^2)/(27 + 9x^2) on |x| < 3, saturated at -1 and 1 beyond.
FTanh(x) ==
    IF IsNaN(x) THEN NaN
    ELSE IF x >= 3 * Scale THEN Scale
    ELSE IF x <= 0 - 3 * Scale THEN 0 - Scale
    ELSE LET x2 == RoundDiv(x * x, Scale)
         IN  RoundDiv(x * (27 * Scale + x2), 27 * Scale + 9 * x2)

\* nn.Sigmoid, as (1 + tanh(x/2))/2: its values lie in [0, 1].
FSigmoid(x) ==
    IF IsNaN(x) THEN NaN
    ELSE IF x = PInf THEN Scale
    ELSE IF x = NInf THEN 0
    ELSE RoundDiv(Scale + FTanh(RoundDiv(x, 2)), 2)

\* ------------------------------------------------------------ tensors

Tensor(nd, rows) == [nd |-> nd, rows |-> rows]
Vec(v) == Tensor(1, <<v>>)
Scalar(x) == Tensor(0, <<<<x>>>>)
Mat(rows) == Tensor(2, rows)

NRows(t) == Len(t.rows)
NCols(t) == Len(t.rows[1])

\* len(tensor): the size of the first dimension.
TLen(t) == IF t.nd = 2 THEN NRows(t) ELSE NCols(t)

\* Row i of a tensor broadcast along its first dimension.
BRow(t, i) == IF NRows(t) = 1 THEN t.rows[1] ELSE t.rows[i]

\* Whether first dimensions n and m broadcast together, and to what.
Broadcasts(n, m) == n = m \/ n = 1 \/ m = 1
BMax(n, m) == IF n > m THEN n ELSE m

\* The sequence f[1], ..., f[n], each element computed once.
RECURSIVE Upto(_, _)
Upto(f, n) == IF n = 0 THEN <<>> ELSE Append(Upto(f, n - 1), f[n])
Seqn(f) == Upto(f, Len(f))

\* Exceptions: none, or the type raised and the source line raising it.
NoError == [type |-> "none", line |-> 0]
Raise(type, line) == [type |-> type, line |-> line]

\* ------------------------------------------------- environment parameters

FRAME_TIME == Lit(1, 1)
GRAVITY_ACCEL == 0 - Lit(981, 100000)
BOOST_ACCEL == Lit(14715, 1000000)

\* number of time steps (the module global)
T == 20
dim_input == 5
dim_hidden == 6

\* ------------------------------------------------------------ Dynamics

delta_state_gravity == <<0, 0, 0, FMul(GRAVITY_ACCEL, FRAME_TIME), 0>>

\* drag = (-0.5)*coeff*p*A
drag == FMul(FMul(FMul(0 - Lit(1, 2), Lit(3, 4)), Lit(129, 100)), Lit(43, 4))

step_mat ==
    << <<Scale, FRAME_TIME, 0, 0, 0>>,
       <<0, Scale, 0, 0, 0>>,
       <<0, 0, Scale, FRAME_TIME, 0>>,
       <<0, 0, 0, Scale, 0>>,
       <<0, 0, 0, 0, Scale>> >>

\* Sum of f[1] .. f[n], in order.
RECURSIVE FSum(_, _)
FSum(f, n) == IF n = 1 THEN f[1] ELSE FAdd(FSum(f, n - 1), f[n])

\* t.matmul of two 2-D tensors given as sequences of rows.
MatMul(a, b) ==
    Seqn([r \in 1..Len(a) |->
        Seqn([c \in 1..Len(b[1]) |->
            FSum([k \in 1..Len(b) |-> FMul(a[r][k], b[k][c])], Len(b))])])

\* Line 79 for row i: state_copy + delta_state + delta_state_gravity
\* + delta_state_theta + drag*state_copy**2.
DynamicsRow(srow, arow) ==
    LET unit_theta == <<0, 0, 0, 0, 0 - Scale>>
        Sum(state_tensor) ==
            Seqn([c \in 1..5 |->
                LET delta_state ==
                        FMul(FMul(BOOST_ACCEL, FRAME_TIME),
                             FMul(state_tensor[c], arow[1]))
                    delta_state_theta ==
                        FMul(FRAME_TIME, FMul(unit_theta[c], arow[2]))
                IN  FAdd(FAdd(FAdd(FAdd(srow[c], delta_state),
                                   delta_state_gravity[c]),
                              delta_state_theta),
                         FMul(drag, FSq(srow[c])))])
    IN  Sum(<<0, FNeg(FSin(srow[5])), 0, FCos(srow[5]), 0>>)

\* Dynamics.forward with line 79 written in place (state += ...): the caller's
\* tensor then holds the sum.
DynamicsForwardInPlace(state, action) ==
    IF state.nd # 2 \/ action.nd # 2 \/ NCols(state) # 5 \/ NCols(action) < 2
       \/ NRows(action) # NRows(state)
    THEN [raised |-> Raise("IndexError", 61), ret |-> Scalar(0),
          state |-> state, action |-> action]
    ELSE LET sum == Mat(Seqn([i \in 1..NRows(state) |->
                        DynamicsRow(state.rows[i], action.rows[i])]))
         IN  IF NRows(state) # 5
             THEN [raised |-> Raise("RuntimeError", 88), ret |-> Scalar(0),
                   state |-> sum, action |-> action]
             ELSE [raised |-> NoError, ret |-> Mat(MatMul(step_mat, sum.rows)),
                   state |-> sum, action |-> action]

\* What a call of Dynamics.forward does: the exception it raises or the tensor
\* it returns, and its two arguments as the call leaves them (no statement of
\* forward writes to either: state_copy + ... and t.matmul build new tensors).
DynamicsForward(state, action) ==
    LET Out(raised, ret) ==
            [raised |-> raised, ret |-> ret, state |-> state, action |-> action]
        N == TLen(state)
        M == NRows(action)
        R == BMax(N, M)
    IN  IF state.nd = 0 THEN Out(Raise("TypeError", 58), Scalar(0))
        ELSE IF state.nd = 1 \/ NCols(state) < 5
            THEN Out(Raise("IndexError", 61), Scalar(0))
        ELSE IF action.nd < 2 THEN Out(Raise("IndexError", 64), Scalar(0))
        ELSE IF ~Broadcasts(N, M) THEN Out(Raise("RuntimeError", 64), Scalar(0))
        ELSE IF NCols(action) < 2 THEN Out(Raise("IndexError", 67), Scalar(0))
        ELSE IF NCols(state) # 5 THEN Out(Raise("RuntimeError", 79), Scalar(0))
        ELSE IF R # 5 THEN Out(Raise("RuntimeError", 88), Scalar(0))
        ELSE Out(NoError,
                 Mat(MatMul(step_mat,
                     Seqn([i \in 1..R |->
                         DynamicsRow(BRow(state, i), BRow(action, i))]))))

\* ---------------------------------------------------------- Controller

\* nn.Linear on one row: x W^T + b.
Linear(w, b, x) ==
    Seqn([i \in 1..Len(w) |->
        FAdd(FSum([j \in 1..Len(x) |-> FMul(x[j], w[i][j])], Len(x)), b[i])])

\* self.network on one row: Linear, Tanh, Linear, Sigmoid.
Network(params, x) ==
    LET Tanh(h) == Seqn([i \in 1..Len(h) |-> FTanh(h[i])])
        Sigmoid(h) == Seqn([i \in 1..Len(h) |-> FSigmoid(h[i])])
    IN  Sigmoid(Linear(params.w2, params.b2,
                       Tanh(Linear(params.w1, params.b1, x))))

\* Controller.forward: the network applied along the last dimension.
ControllerForward(params, state) ==
    IF state.nd = 0 \/ NCols(state) # Len(params.w1[1])
    THEN [raised |-> Raise("RuntimeError", 116), ret |-> Scalar(0)]
    ELSE [raised |-> NoError,
          ret |-> Tensor(state.nd,
                         Seqn([i \in 1..NRows(state) |->
                             Network(params, state.rows[i])]))]

\* nn.Linear's default initialisation draws every weight and bias uniformly
\* from [-1/sqrt(fan_in), 1/sqrt(fan_in)]; entry k of the draw numbered seed.
Draw(seed, k, fan_in) ==
    LET bound == Lit(1000, IF fan_in = 5 THEN 2236 ELSE 2449)
    IN  ((((seed * 37 + k * 101) % 9) - 4) * bound) \div 4

\* Controller.__init__(dim_input, dim_hidden, dim_output)
ControllerInit(seed, dim_output) ==
    [w1 |-> [i \in 1..dim_hidden |-> [j \in 1..dim_input |->
                Draw(seed, (i - 1) * dim_input + j, dim_input)]],
     b1 |-> [i \in 1..dim_hidden |-> Draw(seed, 30 + i, dim_input)],
     w2 |-> [i \in 1..dim_output |-> [j \in 1..dim_hidden |->
                Draw(seed, 36 + (i - 1) * dim_hidden + j, dim_hidden)]],
     b2 |-> [i \in 1..dim_output |-> Draw(seed, 48 + i, dim_hidden)],
     seed |-> seed,
     updates |-> 0]

\* ---------------------------------------------------------- Simulation

\* Simulation.initialize_state
initialize_state == Vec(<<0, 0, Scale, 0, 0>>)

\* Simulation.error: state[0]**2 + state[1]**2, indexing the first dimension.
SimulationError(state) ==
    IF state.nd = 0 \/ TLen(state) < 2
    THEN [raised |-> Raise("IndexError", 153), ret |-> Scalar(0)]
    ELSE IF state.nd = 1
    THEN [raised |-> NoError,
          ret |-> Scalar(FAdd(FSq(state.rows[1][1]), FSq(state.rows[1][2])))]
    ELSE [raised |-> NoError,
          ret |-> Vec(Seqn([c \in 1..NCols(state) |->
                          FAdd(FSq(state.rows[1][c]), FSq(state.rows[2][c]))]))]

\* The loop of Simulation.forward from iteration i on, over range(T) of the
\* module global T.  acc carries the local state, the two trajectory lists
\* and, for the record, every controller output computed (outputs) and the
\* caller's tensor as the calls leave it (arg).
RECURSIVE ForwardLoop(_, _, _)
ForwardLoop(i, params, acc) ==
    LET Returned(e) == [acc EXCEPT !.raised = e.raised, !.ret = e.ret]
        Stepped(c, d) ==
            LET seen == [acc EXCEPT !.outputs = Append(@, c.ret),
                                    !.arg = IF i = 0 THEN d.state ELSE @]
            IN  IF d.raised # NoError THEN [seen EXCEPT !.raised = d.raised]
                ELSE ForwardLoop(i + 1, params,
                         [seen EXCEPT
                             !.state = d.ret,
                             !.steps = @ + 1,
                             !.action_trajectory = Append(@, c.ret),
                             !.state_trajectory = Append(@, d.ret)])
        Acted(c) ==
            IF c.raised # NoError THEN [acc EXCEPT !.raised = c.raised]
            ELSE Stepped(c, DynamicsForward(acc.state, c.ret))
    IN  IF i = T THEN Returned(SimulationError(acc.state))
        ELSE Acted(ControllerForward(params, acc.state))

\* The loop entered with the lists holding atraj and straj.
ForwardFrom(atraj, straj, params, state) ==
    ForwardLoop(0, params,
        [state |-> state, arg |-> state, steps |-> 0, outputs |-> <<>>,
         action_trajectory |-> atraj, state_trajectory |-> straj,
         raised |-> NoError, ret |-> Scalar(0)])

\* Simulation.forward without lines 138-139: the lists are appended to.
SimulationForwardAppending(prevA, prevS, params, state) ==
    ForwardFrom(prevA, prevS, params, state)

\* Simulation.forward on a Simulation whose lists hold prevA and prevS: both
\* are set to [] and the loop appends to them.
SimulationForward(prevA, prevS, params, state) ==
    ForwardFrom(<<>>, <<>>, params, state)

\* ------------------------------------------------------------ Optimize

\* The step of the optimizer on the parameters: LBFGS moves them along its
\* search direction.  The moved weights are modelled as the next draw.
LBFGSUpdate(params) ==
    [ControllerInit(params.seed + 1, Len(params.b2)) EXCEPT
        !.seed = params.seed + 1, !.updates = params.updates + 1]

\* closure() of Optimize.step on the objects o, called by `by`: the rollout
\* from simulation.state, optimizer.zero_grad(), loss.backward().  A gradient
\* is the sequence of the rollouts whose losses were accumulated into .grad;
\* backward() needs a scalar loss.
Closure(o, by) ==
    LET Rolled(r) ==
            LET id == Len(o.closures) + 1
                rolled == [o EXCEPT !.action_trajectory = r.action_trajectory,
                                    !.state_trajectory = r.state_trajectory,
                                    !.state = r.arg,
                                    !.trajectory_updates = o.params.updates,
                                    !.log = Append(@, "rollout")]
                zeroed == [rolled EXCEPT !.grad = <<>>]
                Called(oo, raised) ==
                    [oo EXCEPT !.raised = raised,
                               !.closures = Append(@,
                                   [by |-> by, steps |-> r.steps,
                                    raised |-> raised,
                                    updates |-> o.params.updates,
                                    grad |-> oo.grad])]
            IN  IF r.raised # NoError THEN Called(rolled, r.raised)
                ELSE IF r.ret.nd # 0
                     THEN Called(zeroed, Raise("RuntimeError", 178))
                ELSE Called([zeroed EXCEPT !.grad = Append(@, id),
                                           !.loss = r.ret,
                                           !.log = Append(@, "backward")],
                            NoError)
    IN  Rolled(SimulationForward(o.action_trajectory, o.state_trajectory,
                                 o.params, o.state))

\* optimizer.step(closure): LBFGS evaluates the closure once, then moves the
\* parameters and evaluates it again, evals times in all; when it stops at its
\* iteration limit (trailing) its last move is not followed by an evaluation.
RECURSIVE LBFGSStep(_, _, _)
LBFGSStep(o, evals, trailing) ==
    LET Evaluated(c) ==
            LET moved == [c EXCEPT !.params = LBFGSUpdate(@),
                                   !.log = Append(@, "update")]
            IN  IF c.raised # NoError THEN c
                ELSE IF evals > 1 THEN LBFGSStep(moved, evals - 1, trailing)
                ELSE IF trailing THEN moved
                ELSE c
    IN  Evaluated(Closure(o, "optimizer"))

\* Optimize.step: self.optimizer.step(closure); return closure()
OptimizeStep(o, evals, trailing) ==
    LET Stepped(s) == IF s.raised # NoError THEN s ELSE Closure(s, "step")
    IN  Stepped(LBFGSStep([o EXCEPT !.log = Append(@, "step")], evals, trailing))

\* Optimize.visualize: the first self.T states of the stored trajectory,
\* plotted by their entries 0 and 1.
OptimizeVisualize(o, selfT) ==
    IF selfT > Len(o.state_trajectory)
    THEN [o EXCEPT !.raised = Raise("IndexError", 189)]
    ELSE [o EXCEPT
            !.raised = NoError,
            !.log = Append(@, "visualize"),
            !.rendered_updates = o.trajectory_updates,
            !.rendered = [x |-> Seqn([i \in 1..selfT |->
                                    o.state_trajectory[i].rows[1]]),
                          y |-> Seqn([i \in 1..selfT |->
                                    IF o.state_trajectory[i].nd = 2
                                    THEN o.state_trajectory[i].rows[2]
                                    ELSE o.state_trajectory[i].rows[1]])]]

\* Optimize.train from epoch number `epoch` on: an exception ends it.
RECURSIVE OptimizeTrain(_, _, _, _, _, _)
OptimizeTrain(o, selfT, epoch, epochs, evals, trailing) ==
    LET Shown(v) ==
            IF v.raised # NoError THEN v
            ELSE OptimizeTrain([v EXCEPT !.epochs_done = @ + 1],
                               selfT, epoch + 1, epochs, evals, trailing)
        Stepped(s) ==
            IF s.raised # NoError THEN s ELSE Shown(OptimizeVisualize(s, selfT))
    IN  IF epoch = epochs THEN o
        ELSE Stepped(OptimizeStep(o, evals, trailing))

\* ------------------------------------------------------- the state machine

\* Bounds of the model.
MaxSeed == 1
MaxCalls == 2
MaxEpochs == 2
MaxEvals == 2

VARIABLES
    params,              \* the Controller's parameters (Optimize.parameters)
    grad,                \* their .grad: the rollouts accumulated into it
    state,               \* Simulation.state
    selfT,               \* Simulation.T
    action_trajectory,   \* Simulation.action_trajectory
    state_trajectory,    \* Simulation.state_trajectory
    trajectory_updates,  \* how many optimizer moves preceded the stored rollout
    rendered,            \* what plt.plot last drew
    call,                \* the last call made on the objects and its outcome
    calls                \* how many calls were made

vars == <<params, grad, state, selfT, action_trajectory, state_trajectory,
          trajectory_updates, rendered, call, calls>>

Batch(n, row) == Mat(Seqn([i \in 1..n |-> row]))

\* Tensors the calls are made with: the initial state, batches of one and of
\* five initial states, and a batch of five tilted states.
StateInputs ==
    { initialize_state,
      Batch(1, initialize_state.rows[1]),
      Batch(5, initialize_state.rows[1]),
      Batch(5, <<Lit(1, 100), 0, 0, 0, Lit(1, 10)>>) }

\* Actions d.forward is called with.
ActionInputs ==
    { Batch(5, <<0, 0>>),
      Batch(5, <<Scale, Lit(1, 2)>>),
      Batch(5, <<Lit(1, 2)>>) }

\* Step counts a Simulation is constructed with.
StepCounts == {1, T, T + 1}

NoCall ==
    [op |-> "none", state |-> Scalar(0), action |-> Scalar(0), epochs |-> 0,
     raised |-> NoError, ret |-> Scalar(0), arg |-> Scalar(0),
     action_after |-> Scalar(0), steps |-> 0, outputs |-> <<>>,
     before |-> <<>>, log |-> <<>>, closures |-> <<>>, epochs_done |-> 0]

\* The objects the Optimize methods work on, as one record.
Objects ==
    [params |-> params, grad |-> grad, state |-> state,
     action_trajectory |-> action_trajectory,
     state_trajectory |-> state_trajectory,
     trajectory_updates |-> trajectory_updates, rendered |-> rendered,
     rendered_updates |-> 0, loss |-> Scalar(0), raised |-> NoError,
     log |-> <<>>, closures |-> <<>>, epochs_done |-> 0]

\* Lines 202-205: d = Dynamics(); c = Controller(5, 6, dim_output);
\* s = Simulation(c, d, T); o = Optimize(s).
Init ==
    /\ \E seed \in 1..MaxSeed, dim_output \in {1, 2} :
           params = ControllerInit(seed, dim_output)
    /\ grad = <<>>
    /\ state = initialize_state
    /\ selfT \in StepCounts
    /\ action_trajectory = <<>>
    /\ state_trajectory = <<>>
    /\ trajectory_updates = 0
    /\ rendered = [drawn |-> FALSE, x |-> <<>>, y |-> <<>>, updates |-> 0]
    /\ call = NoCall
    /\ calls = 0

\* d.forward(st, ac)
CallDynamics(st, ac) ==
    /\ calls < MaxCalls
    /\ \E d \in {DynamicsForward(st, ac)} :
           call' = [NoCall EXCEPT !.op = "dynamics", !.state = st, !.action = ac,
                                  !.raised = d.raised, !.ret = d.ret,
                                  !.arg = d.state, !.action_after = d.action]
    /\ calls' = calls + 1
    /\ UNCHANGED <<params, grad, state, selfT, action_trajectory,
                   state_trajectory, trajectory_updates, rendered>>

\* c.forward(st)
CallController(st) ==
    /\ calls < MaxCalls
    /\ \E c \in {ControllerForward(params, st)} :
           call' = [NoCall EXCEPT !.op = "controller", !.state = st,
                                  !.raised = c.raised, !.ret = c.ret, !.arg = st]
    /\ calls' = calls + 1
    /\ UNCHANGED <<params, grad, state, selfT, action_trajectory,
                   state_trajectory, trajectory_updates, rendered>>

\* s(st): one rollout
CallSimulation(st) ==
    /\ calls < MaxCalls
    /\ \E r \in {SimulationForward(action_trajectory, state_trajectory,
                                    params, st)} :
           /\ action_trajectory' = r.action_trajectory
           /\ state_trajectory' = r.state_trajectory
           /\ call' = [NoCall EXCEPT !.op = "simulation", !.state = st,
                                     !.raised = r.raised, !.ret = r.ret,
                                     !.arg = r.arg, !.steps = r.steps,
                                     !.outputs = r.outputs,
                                     !.before = state_trajectory]
    /\ trajectory_updates' = params.updates
    /\ calls' = calls + 1
    /\ UNCHANGED <<params, grad, state, selfT, rendered>>

\* o.visualize()
CallVisualize ==
    /\ calls < MaxCalls
    /\ \E v \in {OptimizeVisualize(Objects, selfT)} :
           /\ rendered' = IF v.raised = NoError
                          THEN [drawn |-> TRUE, x |-> v.rendered.x,
                                y |-> v.rendered.y, updates |-> v.rendered_updates]
                          ELSE rendered
           /\ call' = [NoCall EXCEPT !.op = "visualize", !.raised = v.raised,
                                     !.log = v.log]
    /\ calls' = calls + 1
    /\ UNCHANGED <<params, grad, state, selfT, action_trajectory,
                   state_trajectory, trajectory_updates>>

\* o.train(epochs), the optimizer evaluating the closure evals times a step
CallTrain(epochs, evals, trailing) ==
    /\ calls < MaxCalls
    /\ \E o \in {OptimizeTrain(Objects, selfT, 0, epochs, evals, trailing)} :
           /\ params' = o.params
           /\ grad' = o.grad
           /\ state' = o.state
           /\ action_trajectory' = o.action_trajectory
           /\ state_trajectory' = o.state_trajectory
           /\ trajectory_updates' = o.trajectory_updates
           /\ rendered' = IF o.epochs_done > 0
                          THEN [drawn |-> TRUE, x |-> o.rendered.x,
                                y |-> o.rendered.y, updates |-> o.rendered_updates]
                          ELSE rendered
           /\ call' = [NoCall EXCEPT !.op = "train", !.state = state,
                                     !.epochs = epochs, !.raised = o.raised,
                                     !.ret = o.loss, !.arg = o.state,
                                     !.log = o.log, !.closures = o.closures,
                                     !.epochs_done = o.epochs_done,
                                     !.before = state_trajectory]
    /\ calls' = calls + 1
    /\ UNCHANGED selfT

Next ==
    \/ \E st \in StateInputs, ac \in ActionInputs : CallDynamics(st, ac)
    \/ \E st \in StateInputs : CallController(st)
    \/ \E st \in StateInputs : CallSimulation(st)
    \/ CallVisualize
    \/ \E epochs \in 1..MaxEpochs, evals \in 1..MaxEvals, trailing \in BOOLEAN :
           CallTrain(epochs, evals, trailing)

Spec == Init /\ [][Next]_vars

\* ------------------------------------------------------------- properties

\* x <= y on numbers: false when either is NaN.
FLe(x, y) == ~IsNaN(x) /\ ~IsNaN(y) /\ x <= y

IsFinite(t) ==
    \A i \in 1..NRows(t) : \A j \in 1..Len(t.rows[i]) : IsFin(t.rows[i][j])

Count(seq, x) == Cardinality({i \in 1..Len(seq) : seq[i] = x})

\* The state the i-th iteration of the last rollout started from.
StepInput(i) == IF i = 1 THEN call.state ELSE state_trajectory[i - 1]

RolloutReturned == call.op = "simulation" /\ call.raised = NoError

\* The exception came out of Dynamics.forward (lines 41-89).
DynamicsRaised(raised) ==
    raised.type # "none" /\ raised.line >= 41 /\ raised.line <= 89

\* C1: a rollout that returns has run exactly Simulation.T iterations: both
\* trajectories hold Simulation.T entries.
C1_RolloutRunsSelfTSteps ==
    RolloutReturned =>
        /\ call.steps = selfT
        /\ Len(action_trajectory) = selfT
        /\ Len(state_trajectory) = selfT

\* C2: in a rollout from the initial state [0,0,1,0,0] with the controller of
\* dimensions 5/6/1, no call of Dynamics.forward raises.
C2_DynamicsNeverFails ==
    (/\ call.op \in {"simulation", "train"}
     /\ call.state = initialize_state
     /\ Len(params.b2) = 1)
        => ~DynamicsRaised(call.raised)

\* C3: every action the controller produces during a rollout has exactly two
\* components, each in [0, 1] when the state it was computed from is finite.
C3_ActionsHaveTwoComponents ==
    call.op = "simulation" =>
        \A i \in 1..Len(call.outputs) :
            \A r \in 1..NRows(call.outputs[i]) :
                LET a == call.outputs[i].rows[r]
                IN  /\ Len(a) = 2
                    /\ IsFinite(StepInput(i)) =>
                           \A j \in 1..Len(a) : FLe(0, a[j]) /\ FLe(a[j], Scale)

\* C4: after a rollout the two trajectories hold exactly the entries of that
\* rollout, in step order: entry i is the action computed in iteration i and
\* the state the dynamics returned for it, and nothing of an earlier rollout
\* is left.  After train they hold the entries of its last closure's rollout.
C4_TrajectoryOverwritten ==
    /\ call.op = "simulation" =>
           /\ Len(action_trajectory) = call.steps
           /\ Len(state_trajectory) = call.steps
           /\ \A i \in 1..call.steps :
                  /\ action_trajectory[i] = call.outputs[i]
                  /\ state_trajectory[i] =
                         DynamicsForward(StepInput(i), action_trajectory[i]).ret
    /\ (call.op = "train" /\ call.closures # <<>>) =>
           /\ Len(action_trajectory) = call.closures[Len(call.closures)].steps
           /\ Len(state_trajectory) = call.closures[Len(call.closures)].steps

\* A second full rollout, made over the stored trajectory of a first one.
C4_Witness ==
    /\ RolloutReturned
    /\ Len(call.before) = T
    /\ Len(state_trajectory) = T
    /\ call.before[1] # state_trajectory[1]

\* C5: a dynamics step with thrust = 0 and turn = 0 leaves the heading
\* (index 4) of every state unchanged.
C5_ZeroActionKeepsHeading ==
    (/\ call.op = "dynamics"
     /\ call.raised = NoError
     /\ \A r \in 1..NRows(call.action) : call.action.rows[r] = <<0, 0>>)
        => \A r \in 1..NRows(call.ret) :
               call.ret.rows[r][5] = BRow(call.state, r)[5]

\* No rollout or gradient computation lies between the last parameter update
\* before a visualization and that visualization.
UpdateThenVisualize(log) ==
    \A j \in 1..Len(log) :
        log[j] = "visualize" =>
            \E i \in 1..(j - 1) :
                /\ log[i] = "update"
                /\ \A k \in (i + 1)..(j - 1) : log[k] \notin {"rollout", "backward"}

\* C6: train(epochs) performs exactly `epochs` optimizer steps and `epochs`
\* visualizations, each epoch in the order rollout, backward, update,
\* visualization with nothing between the update and the visualization.
C6_TrainRunsEveryEpoch ==
    call.op = "train" =>
        /\ Count(call.log, "step") = call.epochs
        /\ Count(call.log, "visualize") = call.epochs
        /\ call.epochs_done = call.epochs
        /\ UpdateThenVisualize(call.log)

\* C7: every invocation of the closure performs a full rollout and leaves on
\* the parameters the gradient of its own loss alone.
C7_ClosureLeavesFreshGradient ==
    call.op = "train" =>
        \A k \in 1..Len(call.closures) :
            /\ call.closures[k].raised = NoError
            /\ call.closures[k].steps = T
            /\ call.closures[k].grad = <<k>>

\* C8: the value a rollout returns is the square of entry 0 plus the square of
\* entry 1 of the state after the last step, and it is non-negative.
C8_LossIsSumOfSquares ==
    RolloutReturned =>
        LET final == state_trajectory[Len(state_trajectory)]
        IN  /\ call.ret = SimulationError(final).ret
            /\ \A j \in 1..NCols(call.ret) : FLe(0, call.ret.rows[1][j])

\* C9: Simulation.state is [0, 0, 1, 0, 0] in every state, so every rollout of
\* train starts from it, and a dynamics step leaves the state and the action
\* it was called with as they were.
C9_InitialStateNeverChanges ==
    /\ state = initialize_state
    /\ call.op = "train" => call.state = initialize_state /\ call.arg = call.state
    /\ call.op \in {"dynamics", "simulation"} => call.arg = call.state
    /\ call.op = "dynamics" => call.action_after = call.action

\* A dynamics step has returned a new state for its arguments.
C9_Witness ==
    /\ call.op = "dynamics"
    /\ call.raised = NoError
    /\ call.ret # call.state
    /\ state = initialize_state

\* C10: in every step of train, Optimize.step itself invokes the closure once
\* more, after optimizer.step has returned, and what is drawn comes from a
\* rollout made with the parameters as updated.
C10_StepRollsOutAfterUpdate ==
    call.op = "train" =>
        /\ Count([k \in 1..Len(call.closures) |-> call.closures[k].by], "step")
               = Count(call.log, "step")
        /\ rendered.drawn => rendered.updates = params.updates

====
